---- MODULE Spec2Model ----
(***************************************************************************)
(* Model of rust_parser_helper (src/rust_parser_helper/src/main.rs):       *)
(* parse_rust_file, RustVisitor::new / detect_contract_type and the        *)
(* syn::visit::Visit overrides of RustVisitor.                             *)
(*                                                                         *)
(* A source text is a sequence of pieces (its concatenation is the text);  *)
(* a syntax tree is a sequence of item nodes, each a record tagged by      *)
(* `kind`.  Option<T> is a sequence of length 0 (None) or 1 (Some).        *)
(* A TokenStream is a sequence of token strings; to_string joins them      *)
(* with single spaces.                                                     *)
(***************************************************************************)
EXTENDS Integers, Sequences, FiniteSets, TLC

VARIABLES source, parsed, pc, result, agenda, recorded

vars == <<source, parsed, pc, result, agenda, recorded>>

---------------------------------------------------------------------------
(* Bounds of the explored inputs.                                          *)

MaxTextLen == 3

MaxParams == 2

MaxFields == 3

MaxItems == 2

---------------------------------------------------------------------------
(* Generic helpers.                                                        *)

None == <<>>

Some(x) == <<x>>

RECURSIVE Flatten(_)
Flatten(ss) ==
    IF ss = <<>> THEN <<>>
    ELSE IF Len(ss) = 1 THEN Head(ss)
    ELSE LET h == Len(ss) \div 2
         IN  Flatten(SubSeq(ss, 1, h)) \o Flatten(SubSeq(ss, h + 1, Len(ss)))

RECURSIVE Punctuated(_, _)
Punctuated(ss, sep) ==
    IF ss = <<>> THEN <<>>
    ELSE IF Len(ss) = 1 THEN Head(ss)
    ELSE LET h == Len(ss) \div 2
         IN  Punctuated(SubSeq(ss, 1, h), sep) \o <<sep>>
             \o Punctuated(SubSeq(ss, h + 1, Len(ss)), sep)

---------------------------------------------------------------------------
(* str::contains: the marker occurs as a contiguous run of the text.       *)

Contains(text, marker) ==
    \E i \in 1..(Len(text) - Len(marker) + 1) :
        SubSeq(text, i, i + Len(marker) - 1) = marker

InkAttr == <<"#[ink::contract]">>

InkLang == <<"ink", "_lang">>

CosmwasmStd == <<"cosmwasm", "_std">>

InstantiateMsg == <<"InstantiateMsg">>

AnchorLang == <<"anchor", "_lang">>

ProgramAttr == <<"#[program]">>

NearSdk == <<"near", "_sdk">>

NearBindgen == <<"#[near_bindgen]">>

DetectInkAttrOnly(text) ==
    IF Contains(text, InkAttr) THEN "ink"
    ELSE IF Contains(text, CosmwasmStd) \/ Contains(text, InstantiateMsg) THEN "cosmwasm"
    ELSE IF Contains(text, AnchorLang) \/ Contains(text, ProgramAttr) THEN "anchor"
    ELSE IF Contains(text, NearSdk) \/ Contains(text, NearBindgen) THEN "near"
    ELSE "generic"

DetectSwapped(text) ==
    IF Contains(text, CosmwasmStd) \/ Contains(text, InstantiateMsg) THEN "cosmwasm"
    ELSE IF Contains(text, InkAttr) \/ Contains(text, InkLang) THEN "ink"
    ELSE IF Contains(text, AnchorLang) \/ Contains(text, ProgramAttr) THEN "anchor"
    ELSE IF Contains(text, NearSdk) \/ Contains(text, NearBindgen) THEN "near"
    ELSE "generic"

DetectLabel(text) ==
    IF Contains(text, InkAttr) \/ Contains(text, InkLang) THEN "ink"
    ELSE IF Contains(text, CosmwasmStd) \/ Contains(text, InstantiateMsg) THEN "cosmwasm"
    ELSE IF Contains(text, AnchorLang) \/ Contains(text, ProgramAttr) THEN "anchor"
    ELSE IF Contains(text, NearSdk) \/ Contains(text, NearBindgen) THEN "near"
    ELSE "generic"

---------------------------------------------------------------------------
(* Token rendering (quote::ToTokens of the syn nodes) and to_string.       *)

RECURSIVE Join(_)
Join(toks) ==
    IF toks = <<>> THEN ""
    ELSE IF Len(toks) = 1 THEN Head(toks)
    ELSE LET h == Len(toks) \div 2
         IN  Join(SubSeq(toks, 1, h)) \o " " \o Join(SubSeq(toks, h + 1, Len(toks)))

VisTokens(vis) ==
    IF vis.kind = "Public" THEN <<"pub">>
    ELSE IF vis.kind = "Restricted" THEN <<"pub", "(", vis.path, ")">>
    ELSE <<>>

AttrsTokens(attrs) == Flatten(attrs)

PatTokens(pat) ==
    IF pat.kind = "Ident"
    THEN (IF pat.mutability THEN <<"mut">> ELSE <<>>) \o <<pat.ident>>
    ELSE pat.tokens

PatTypeTokens(pt) == AttrsTokens(pt.attrs) \o PatTokens(pt.pat) \o <<":">> \o pt.ty

FnArgTokens(arg) == IF arg.kind = "Receiver" THEN arg.tokens ELSE PatTypeTokens(arg)

SigTokens(sig) ==
    (IF sig.asyncness THEN <<"async">> ELSE <<>>)
    \o (IF sig.unsafety THEN <<"unsafe">> ELSE <<>>)
    \o <<"fn", sig.ident, "(">>
    \o Punctuated([i \in 1..Len(sig.inputs) |-> FnArgTokens(sig.inputs[i])], ",")
    \o <<")">>
    \o (IF sig.output = None THEN <<>> ELSE <<"->">> \o sig.output[1])

FieldTokens(f) ==
    AttrsTokens(f.attrs) \o VisTokens(f.vis)
    \o (IF f.ident = None THEN <<>> ELSE <<f.ident[1], ":">>)
    \o f.ty

FieldsTokens(fields) ==
    LET inner == Punctuated([i \in 1..Len(fields.list) |-> FieldTokens(fields.list[i])], ",")
    IN  IF fields.style = "Named" THEN <<"{">> \o inner \o <<"}">>
        ELSE IF fields.style = "Unnamed" THEN <<"(">> \o inner \o <<")", ";">>
        ELSE <<";">>

RECURSIVE Tokens(_)
Tokens(n) ==
    LET Each(ns) == Flatten([i \in 1..Len(ns) |-> Tokens(ns[i])])
    IN  CASE n.kind = "Block" -> <<"{">> \o Each(n.stmts) \o <<"}">>
          [] n.kind = "Fn" ->
                AttrsTokens(n.attrs) \o VisTokens(n.vis) \o SigTokens(n.sig) \o Tokens(n.block)
          [] n.kind = "ImplFn" ->
                AttrsTokens(n.attrs) \o VisTokens(n.vis) \o SigTokens(n.sig) \o Tokens(n.block)
          [] n.kind = "TraitFn" ->
                AttrsTokens(n.attrs) \o SigTokens(n.sig)
                \o (IF n.default = None THEN <<";">> ELSE Tokens(n.default[1]))
          [] n.kind = "Struct" ->
                AttrsTokens(n.attrs) \o VisTokens(n.vis) \o <<"struct", n.ident>>
                \o FieldsTokens(n.fields)
          [] n.kind = "Trait" ->
                AttrsTokens(n.attrs) \o VisTokens(n.vis) \o <<"trait", n.ident, "{">>
                \o Each(n.items) \o <<"}">>
          [] n.kind = "Impl" ->
                AttrsTokens(n.attrs) \o <<"impl">>
                \o (IF n.trait_ = None THEN <<>> ELSE n.trait_[1] \o <<"for">>)
                \o n.self_ty \o <<"{">> \o Each(n.items) \o <<"}">>
          [] n.kind = "Use" ->
                AttrsTokens(n.attrs) \o VisTokens(n.vis) \o <<"use">> \o n.tree \o <<";">>
          [] n.kind = "Mod" ->
                AttrsTokens(n.attrs) \o VisTokens(n.vis) \o <<"mod", n.ident, "{">>
                \o Each(n.items) \o <<"}">>
          [] n.kind = "Local" ->
                <<"let">> \o n.pat
                \o (IF n.init = None THEN <<>> ELSE <<"=">> \o Tokens(n.init[1]))
                \o <<";">>
          [] n.kind = "ExprUnsafe" -> <<"unsafe">> \o Tokens(n.block)
          [] n.kind = "ExprBlock" -> Tokens(n.block)
          [] OTHER -> n.tokens

---------------------------------------------------------------------------
(* quote::quote!(...).to_string() as written at each call site.  In        *)
(* quote!, `#x` interpolates the variable x; a following `.field` is not   *)
(* part of the interpolation and is emitted as the literal tokens `.` and  *)
(* `field`.                                                                *)

QuoteAttr(attr) == Join(attr)

QuoteTy(ty) == Join(ty)

QuotePath(path) == Join(path)

QuoteNode(node) == Join(Tokens(node))

QuotePatTypeDotTy(pat_type) == Join(PatTypeTokens(pat_type) \o <<".", "ty">>)

QuoteFieldDotTy(field) == Join(FieldTokens(field) \o <<".", "ty">>)

QuoteNodeDotSelfTy(node) == Join(Tokens(node) \o <<".", "self_ty">>)

---------------------------------------------------------------------------
(* RustVisitor helpers.                                                    *)

ExtractAttributes(attrs) == [i \in 1..Len(attrs) |-> QuoteAttr(attrs[i])]

VisibilityToString(vis) ==
    CASE vis.kind = "Public" -> "pub"
      [] vis.kind = "Restricted" -> "pub(restricted)"
      [] vis.kind = "Inherited" -> "private"

GetLineNumbers(span) == <<1, 1>>

Digit(d) ==
    CASE d = 0 -> "0" [] d = 1 -> "1" [] d = 2 -> "2" [] d = 3 -> "3" [] d = 4 -> "4"
      [] d = 5 -> "5" [] d = 6 -> "6" [] d = 7 -> "7" [] d = 8 -> "8" [] d = 9 -> "9"

RECURSIVE FormatUsize(_)
FormatUsize(i) ==
    IF i < 10 THEN Digit(i) ELSE FormatUsize(i \div 10) \o Digit(i % 10)

FieldNameOneBased(i) == "field_" \o FormatUsize(i + 1)

FieldName(i) == "field_" \o FormatUsize(i)

---------------------------------------------------------------------------
(* The record normalizers: what each visit_item_* builds before pushing.   *)

ParameterOfAny(arg) ==
    IF arg.kind = "Typed"
    THEN Some([name |-> IF arg.pat.kind = "Ident" THEN arg.pat.ident ELSE "_",
               param_type |-> QuotePatTypeDotTy(arg),
               is_mutable |-> arg.pat.kind = "Ident" /\ arg.pat.mutability])
    ELSE None

ParameterOf(arg) ==
    IF arg.kind = "Typed" /\ arg.pat.kind = "Ident"
    THEN Some([name |-> arg.pat.ident,
               param_type |-> QuotePatTypeDotTy(arg),
               is_mutable |-> arg.pat.mutability])
    ELSE None

Parameters(inputs) == Flatten([i \in 1..Len(inputs) |-> ParameterOf(inputs[i])])

ReturnTypeOf(output) == IF output = None THEN None ELSE Some(QuoteTy(output[1]))

ParsedFunctionOf(node) ==
    [name |-> node.sig.ident,
     visibility |-> VisibilityToString(node.vis),
     parameters |-> Parameters(node.sig.inputs),
     return_type |-> ReturnTypeOf(node.sig.output),
     attributes |-> ExtractAttributes(node.attrs),
     is_async |-> node.sig.asyncness,
     is_unsafe |-> node.sig.unsafety,
     line_start |-> GetLineNumbers(node)[1],
     line_end |-> GetLineNumbers(node)[2]]

NamedFieldOf(field) ==
    IF field.ident = None THEN None
    ELSE Some([name |-> field.ident[1],
               field_type |-> QuoteFieldDotTy(field),
               visibility |-> VisibilityToString(field.vis)])

UnnamedFieldOf(i, field) ==
    [name |-> FieldName(i),
     field_type |-> QuoteFieldDotTy(field),
     visibility |-> VisibilityToString(field.vis)]

FieldsOf(fields) ==
    CASE fields.style = "Named" ->
            Flatten([i \in 1..Len(fields.list) |-> NamedFieldOf(fields.list[i])])
      [] fields.style = "Unnamed" ->
            [i \in 1..Len(fields.list) |-> UnnamedFieldOf(i - 1, fields.list[i])]
      [] fields.style = "Unit" -> <<>>

ParsedStructOf(node) ==
    [name |-> node.ident,
     visibility |-> VisibilityToString(node.vis),
     fields |-> FieldsOf(node.fields),
     attributes |-> ExtractAttributes(node.attrs),
     line_start |-> GetLineNumbers(node)[1],
     line_end |-> GetLineNumbers(node)[2]]

MethodNames(items, fnKind) ==
    Flatten([i \in 1..Len(items) |->
                IF items[i].kind = fnKind THEN Some(items[i].sig.ident) ELSE None])

ParsedTraitOf(node) ==
    [name |-> node.ident,
     visibility |-> VisibilityToString(node.vis),
     methods |-> MethodNames(node.items, "TraitFn"),
     attributes |-> ExtractAttributes(node.attrs),
     line_start |-> GetLineNumbers(node)[1],
     line_end |-> GetLineNumbers(node)[2]]

ParsedImplOf(node) ==
    [target_type |-> QuoteNodeDotSelfTy(node),
     trait_name |-> IF node.trait_ = None THEN None ELSE Some(QuotePath(node.trait_[1])),
     methods |-> MethodNames(node.items, "ImplFn"),
     line_start |-> GetLineNumbers(node)[1],
     line_end |-> GetLineNumbers(node)[2]]

UseStatementOf(node) == QuoteNode(node)

---------------------------------------------------------------------------
(* Constructors of syntax-tree nodes (the shapes of syn's File items,      *)
(* impl/trait members, blocks and statements that the walk distinguishes). *)

Inherited == [kind |-> "Inherited"]

Public == [kind |-> "Public"]

Restricted == [kind |-> "Restricted", path |-> "crate"]

Receiver(toks) == [kind |-> "Receiver", tokens |-> toks]

TypedIdent(ident, mutability, ty) ==
    [kind |-> "Typed", attrs |-> <<>>,
     pat |-> [kind |-> "Ident", ident |-> ident, mutability |-> mutability], ty |-> ty]

TypedPat(toks, ty) ==
    [kind |-> "Typed", attrs |-> <<>>, pat |-> [kind |-> "Other", tokens |-> toks], ty |-> ty]

Sig(ident, asyncness, unsafety, inputs, output) ==
    [ident |-> ident, asyncness |-> asyncness, unsafety |-> unsafety,
     inputs |-> inputs, output |-> output]

Block(stmts) == [kind |-> "Block", stmts |-> stmts]

ItemFn(attrs, vis, sig, stmts) ==
    [kind |-> "Fn", attrs |-> attrs, vis |-> vis, sig |-> sig, block |-> Block(stmts)]

ImplItemFn(attrs, vis, sig, stmts) ==
    [kind |-> "ImplFn", attrs |-> attrs, vis |-> vis, sig |-> sig, block |-> Block(stmts)]

TraitItemFn(sig, default) ==
    [kind |-> "TraitFn", attrs |-> <<>>, sig |-> sig, default |-> default]

Field(vis, ident, ty) == [attrs |-> <<>>, vis |-> vis, ident |-> ident, ty |-> ty]

ItemStruct(attrs, vis, ident, style, list) ==
    [kind |-> "Struct", attrs |-> attrs, vis |-> vis, ident |-> ident,
     fields |-> [style |-> style, list |-> list]]

ItemTrait(vis, ident, items) ==
    [kind |-> "Trait", attrs |-> <<>>, vis |-> vis, ident |-> ident, items |-> items]

ItemImpl(trait_, self_ty, items) ==
    [kind |-> "Impl", attrs |-> <<>>, trait_ |-> trait_, self_ty |-> self_ty, items |-> items]

ItemUse(tree) == [kind |-> "Use", attrs |-> <<>>, vis |-> Inherited, tree |-> tree]

ItemMod(attrs, ident, items) ==
    [kind |-> "Mod", attrs |-> attrs, vis |-> Inherited, ident |-> ident, items |-> items]

Verbatim(kind, toks) == [kind |-> kind, tokens |-> toks]

Local(pat, init) == [kind |-> "Local", pat |-> pat, init |-> init]

ExprUnsafe(stmts) == [kind |-> "ExprUnsafe", block |-> Block(stmts)]

ExprBlock(stmts) == [kind |-> "ExprBlock", block |-> Block(stmts)]

---------------------------------------------------------------------------
(* The walk: an agenda of nodes still to visit, first to visit first.      *)
(* Each entry carries the node's path from the root (child indices), which *)
(* identifies the declaration and orders it in the source.                 *)

Kids(path, nodes) == [i \in 1..Len(nodes) |-> [node |-> nodes[i], path |-> path \o <<i>>]]

NoChildren(n) == <<>>

DefaultChildren(n) ==
    CASE n.kind = "Mod" -> n.items
      [] n.kind = "ImplFn" -> <<n.block>>
      [] n.kind = "TraitFn" -> n.default
      [] n.kind = "Local" -> n.init
      [] n.kind \in {"ExprUnsafe", "ExprBlock"} -> <<n.block>>
      [] OTHER -> <<>>

HandledKinds == {"Fn", "Struct", "Trait", "Impl", "Use", "Block"}

EmptyResult ==
    [functions |-> <<>>, structs |-> <<>>, traits |-> <<>>, impl_blocks |-> <<>>,
     unsafe_blocks |-> <<>>, attributes |-> <<>>, uses |-> <<>>,
     contract_type |-> "", errors |-> <<>>]

NoRecorded ==
    [functions |-> <<>>, structs |-> <<>>, traits |-> <<>>, impl_blocks |-> <<>>, uses |-> <<>>]

RustVisitorNew(src) == [EmptyResult EXCEPT !.contract_type = DetectLabel(src)]

ErrorReportKeepLabel(e) ==
    [EmptyResult EXCEPT !.contract_type = DetectLabel(source),
                        !.errors = <<"Parse error: " \o e>>]

ErrorReport(e) ==
    [EmptyResult EXCEPT !.contract_type = "unknown",
                        !.errors = <<"Parse error: " \o e>>]

---------------------------------------------------------------------------
(* Inputs: a source text together with what syn::parse_file returns for    *)
(* it (a File's items, or an error whose Display text is `err`).           *)

Filler == "/* .. */"

TextAlphabet ==
    {Filler, "#[ink::contract]", "ink", "_lang", "cosmwasm", "_std", "InstantiateMsg",
     "anchor", "#[program]", "near", "_sdk", "#[near_bindgen]"}

Diagnostics == {"expected identifier", "unexpected end of input"}

Input(text, ok, ast, err) == [text |-> text, ok |-> ok, ast |-> ast, err |-> err]

FnLeaf == ItemFn(<<>>, Inherited, Sig("helper", FALSE, FALSE, <<>>, None), <<>>)

StructLeaf == ItemStruct(<<>>, Public, "Marker", "Unit", <<>>)

UseLeaf == ItemUse(<<"ink_storage", "::", "Mapping">>)

EnumLeaf == Verbatim("Other", <<"enum", "Status", "{", "Active", "}">>)

(* Texts of up to MaxTextLen pieces.  The empty text parses to an empty    *)
(* file; any other text may parse (to a file with or without items, the    *)
(* pieces then lying in comments or attributes) or fail to parse.          *)
ParseOutcomes(text) ==
    IF text = <<>> THEN { Input(text, TRUE, <<>>, "") }
    ELSE { Input(text, TRUE, ast, "") : ast \in {<<>>, <<FnLeaf>>} }
         \cup { Input(text, FALSE, <<>>, d) : d \in Diagnostics }

ParamSet ==
    { Receiver(<<"&", "self">>),
      TypedIdent("account", FALSE, <<"AccountId">>),
      TypedIdent("amount", TRUE, <<"u128">>),
      TypedPat(<<"(", "a", ",", "b", ")">>, <<"Pair">>) }

FnShape(v, a, u, ins, out) == ItemFn(<<>>, v, Sig("transfer", a, u, ins, out), <<>>)

FieldChoices ==
    { [vis |-> Inherited, ty |-> <<"AccountId">>],
      [vis |-> Public, ty |-> <<"Balance">>],
      [vis |-> Restricted, ty |-> <<"Mapping", "<", "AccountId", ",", "Balance", ">">>] }

NamedList(cs) == [i \in 1..Len(cs) |-> Field(cs[i].vis, Some("m" \o FormatUsize(i)), cs[i].ty)]

UnnamedList(cs) == [i \in 1..Len(cs) |-> Field(cs[i].vis, None, cs[i].ty)]

StructShapes(cs) ==
    IF cs = <<>>
    THEN { StructLeaf, ItemStruct(<<>>, Public, "Storage", "Named", <<>>) }
    ELSE { ItemStruct(<<>>, Public, "Storage", "Named", NamedList(cs)),
           ItemStruct(<<>>, Inherited, "Pair", "Unnamed", UnnamedList(cs)) }

SelfSig(ident) == Sig(ident, FALSE, FALSE, <<Receiver(<<"&", "self">>)>>, None)

PlainFn(ident, stmts) == ItemFn(<<>>, Inherited, Sig(ident, FALSE, FALSE, <<>>, None), stmts)

(* Items with declarations nested in modules, impl blocks, trait bodies    *)
(* and function bodies.                                                    *)
ItemPool ==
    { FnLeaf, StructLeaf, UseLeaf, EnumLeaf,
      ItemMod(<<>>, "inner", <<FnLeaf, StructLeaf>>),
      ItemMod(<<>>, "outer",
              <<ItemMod(<<>>, "deep", <<UseLeaf, PlainFn("deep_fn", <<>>)>>),
                ItemImpl(None, <<"Marker">>, <<ImplItemFn(<<>>, Public, SelfSig("get"), <<>>)>>)>>),
      PlainFn("outer_fn", <<PlainFn("inner_fn", <<>>)>>),
      PlainFn("with_locals",
              <<Local(<<"x">>, Some(Verbatim("ExprOther", <<"1">>))),
                ItemStruct(<<>>, Inherited, "InBody", "Unit", <<>>),
                Verbatim("ExprOther", <<"x">>)>>),
      PlainFn("with_unsafe", <<ExprUnsafe(<<UseLeaf, Verbatim("Macro", <<"assert", "!", "(", "ok", ")", ";">>)>>)>>),
      PlainFn("with_block",
              <<ExprBlock(<<ItemImpl(None, <<"Marker">>, <<>>)>>),
                ItemTrait(Inherited, "InBodyTrait", <<>>)>>),
      ItemImpl(None, <<"Marker">>, <<>>),
      ItemImpl(Some(<<"Token">>), <<"Marker">>,
               <<ImplItemFn(<<>>, Inherited, SelfSig("balance"), <<>>),
                 Verbatim("ImplConst", <<"const", "DECIMALS", ":", "u8", "=", "18", ";">>)>>),
      ItemImpl(None, <<"Vec", "<", "Marker", ">">>,
               <<ImplItemFn(<<>>, Public, SelfSig("method"), <<PlainFn("in_method", <<>>)>>)>>),
      ItemTrait(Public, "Token",
                <<TraitItemFn(SelfSig("balance"), None),
                  Verbatim("TraitType", <<"type", "Amount", ";">>)>>),
      ItemTrait(Inherited, "Hooks",
                <<TraitItemFn(SelfSig("on_call"),
                              Some(Block(<<ItemStruct(<<>>, Inherited, "InDefault", "Unit", <<>>)>>)))>>) }

---------------------------------------------------------------------------
(* The fixture src/test_vulnerable_contract.rs as parsed.  Expressions     *)
(* that hold no item declaration are kept as verbatim token runs.          *)

InkMessage == <<"#", "[", "ink", "(", "message", ")", "]">>

SelfRef == Receiver(<<"&", "self">>)

SelfMut == Receiver(<<"&", "mut", "self">>)

FixtureMethods ==
    << ImplItemFn(<<<<"#", "[", "ink", "(", "constructor", ")", "]">>>>, Public,
                  Sig("new", FALSE, FALSE, <<>>, Some(<<"Self">>)),
                  <<Verbatim("ExprOther", <<"ink_lang", "::", "utils", "::", "initialize_contract", "(", "..", ")">>)>>),
       ImplItemFn(<<InkMessage>>, Public,
                  Sig("get_balance", FALSE, FALSE,
                      <<SelfRef, TypedIdent("account", FALSE, <<"AccountId">>)>>, Some(<<"Balance">>)),
                  <<Verbatim("ExprOther", <<"self", ".", "balances", ".", "get", "(", "&", "account", ")", ".", "unwrap", "(", ")">>)>>),
       ImplItemFn(<<InkMessage>>, Public,
                  Sig("unsafe_add", FALSE, FALSE,
                      <<SelfRef, TypedIdent("a", FALSE, <<"u128">>), TypedIdent("b", FALSE, <<"u128">>)>>,
                      Some(<<"u128">>)),
                  <<Verbatim("ExprOther", <<"a", "+", "b">>)>>),
       ImplItemFn(<<InkMessage>>, Public,
                  Sig("unsafe_operation", FALSE, FALSE, <<SelfMut>>, None),
                  <<ExprUnsafe(<<Local(<<"ptr">>, Some(Verbatim("ExprOther", <<"&", "mut", "self", ".", "total_supply", "as", "*", "mut", "Balance">>))),
                                 Verbatim("ExprOther", <<"*", "ptr", "=", "0", ";">>)>>)>>),
       ImplItemFn(<<InkMessage>>, Public,
                  Sig("direct_balance_set", FALSE, FALSE,
                      <<SelfMut, TypedIdent("account", FALSE, <<"AccountId">>),
                        TypedIdent("amount", FALSE, <<"Balance">>)>>, None),
                  <<Verbatim("ExprOther", <<"self", ".", "balances", ".", "insert", "(", "&", "account", ",", "&", "amount", ")", ";">>)>>),
       ImplItemFn(<<InkMessage>>, Public,
                  Sig("call_external", FALSE, FALSE,
                      <<SelfRef, TypedIdent("contract_addr", FALSE, <<"AccountId">>)>>, None),
                  <<Local(<<"result">>, Some(Verbatim("ExprOther", <<"ink_env", "::", "call", "::", "build_call", "(", ")", ".", "exec", "(", ")">>)))>>),
       ImplItemFn(<<InkMessage>>, Public,
                  Sig("unsafe_array_access", FALSE, FALSE,
                      <<SelfRef, TypedIdent("arr", FALSE, <<"Vec", "<", "u32", ">">>),
                        TypedIdent("index", FALSE, <<"usize">>)>>, Some(<<"u32">>)),
                  <<Verbatim("ExprOther", <<"arr", "[", "index", "]">>)>>),
       ImplItemFn(<<InkMessage>>, Public,
                  Sig("unsafe_assert", FALSE, FALSE,
                      <<SelfRef, TypedIdent("condition", FALSE, <<"bool">>)>>, None),
                  <<Verbatim("Macro", <<"assert", "!", "(", "condition", ")", ";">>)>>),
       ImplItemFn(<<InkMessage>>, Public,
                  Sig("unsafe_expect", FALSE, FALSE,
                      <<SelfRef, TypedIdent("option", FALSE, <<"Option", "<", "u32", ">">>)>>,
                      Some(<<"u32">>)),
                  <<Verbatim("ExprOther", <<"option", ".", "expect", "(", "..", ")">>)>>) >>

FixtureAst ==
    << [kind |-> "Use", attrs |-> <<>>, vis |-> Inherited, tree |-> <<"ink_lang", "as", "ink">>],
       ItemMod(<<<<"#", "[", "ink", "::", "contract", "]">>>>, "vulnerable_contract",
               << ItemUse(<<"ink_storage", "::", "traits", "::", "SpreadAllocate">>),
                  ItemUse(<<"ink_storage", "::", "Mapping">>),
                  ItemStruct(<< <<"#", "[", "ink", "(", "storage", ")", "]">>,
                                <<"#", "[", "derive", "(", "SpreadAllocate", ")", "]">> >>,
                             Public, "VulnerableContract", "Named",
                             << Field(Inherited, Some("balances"),
                                      <<"Mapping", "<", "AccountId", ",", "Balance", ">">>),
                                Field(Inherited, Some("owner"), <<"AccountId">>),
                                Field(Inherited, Some("total_supply"), <<"Balance">>) >>),
                  ItemImpl(None, <<"VulnerableContract">>, FixtureMethods) >>) >>

FixtureText ==
    <<Filler, "ink", "_lang", Filler, "#[ink::contract]", Filler, "ink", "_lang", Filler>>

---------------------------------------------------------------------------
(* parse_rust_file, one action per step and per visitor method.            *)

Start(in) ==
    /\ source = in.text
    /\ parsed = [ok |-> in.ok, ast |-> in.ast, err |-> in.err]
    /\ pc = "start"
    /\ result = EmptyResult
    /\ agenda = <<>>
    /\ recorded = NoRecorded

Init ==
    \/ \E k \in 0..MaxTextLen : \E text \in [1..k -> TextAlphabet] :
          \E in \in ParseOutcomes(text) : Start(in)
    \/ \E v \in {Inherited, Public, Restricted}, a \in BOOLEAN, u \in BOOLEAN,
           out \in {None, Some(<<"Balance">>)} :
          \E k \in 0..MaxParams : \E ins \in [1..k -> ParamSet] :
             Start(Input(<<Filler>>, TRUE, <<FnShape(v, a, u, ins, out)>>, ""))
    \/ \E k \in 0..MaxFields : \E cs \in [1..k -> FieldChoices] :
          \E st \in StructShapes(cs) : Start(Input(<<Filler>>, TRUE, <<st>>, ""))
    \/ \E k \in 1..MaxItems : \E items \in [1..k -> ItemPool] :
          Start(Input(<<Filler>>, TRUE, items, ""))
    \/ Start(Input(FixtureText, TRUE, FixtureAst, ""))

(* Ok(ast) arm, line 307: RustVisitor::new(&source).                       *)
NewVisitor ==
    /\ pc = "start"
    /\ parsed.ok
    /\ result' = RustVisitorNew(source)
    /\ pc' = "constructed"
    /\ UNCHANGED <<source, parsed, agenda, recorded>>

ForceUnknownLabel ==
    /\ pc = "constructed"
    /\ result' = [result EXCEPT !.contract_type = "unknown"]
    /\ pc' = "detected"
    /\ UNCHANGED <<source, parsed, agenda, recorded>>

(* Line 308: visitor.detect_contract_type(&source).                        *)
DetectContractType ==
    /\ pc = "constructed"
    /\ result' = [result EXCEPT !.contract_type = DetectLabel(source)]
    /\ pc' = "detected"
    /\ UNCHANGED <<source, parsed, agenda, recorded>>

(* Line 309: visitor.visit_file(&ast) starts the walk at the file's items. *)
VisitFile ==
    /\ pc = "detected"
    /\ agenda' = Kids(<<>>, parsed.ast)
    /\ pc' = "visiting"
    /\ UNCHANGED <<source, parsed, result, recorded>>

Visiting(kinds) == pc = "visiting" /\ agenda # <<>> /\ Head(agenda).node.kind \in kinds

DescendLast(children) == agenda' = Tail(agenda) \o Kids(Head(agenda).path, children)

Descend(children) == agenda' = Kids(Head(agenda).path, children) \o Tail(agenda)

VisitItemFn ==
    /\ Visiting({"Fn"})
    /\ result' = [result EXCEPT !.functions = Append(@, ParsedFunctionOf(Head(agenda).node))]
    /\ recorded' = [recorded EXCEPT !.functions = Append(@, Head(agenda).path)]
    /\ Descend(<<Head(agenda).node.block>>)
    /\ UNCHANGED <<source, parsed, pc>>

VisitItemStruct ==
    /\ Visiting({"Struct"})
    /\ result' = [result EXCEPT !.structs = Append(@, ParsedStructOf(Head(agenda).node))]
    /\ recorded' = [recorded EXCEPT !.structs = Append(@, Head(agenda).path)]
    /\ Descend(<<>>)
    /\ UNCHANGED <<source, parsed, pc>>

VisitItemTrait ==
    /\ Visiting({"Trait"})
    /\ result' = [result EXCEPT !.traits = Append(@, ParsedTraitOf(Head(agenda).node))]
    /\ recorded' = [recorded EXCEPT !.traits = Append(@, Head(agenda).path)]
    /\ Descend(Head(agenda).node.items)
    /\ UNCHANGED <<source, parsed, pc>>

VisitItemImpl ==
    /\ Visiting({"Impl"})
    /\ result' = [result EXCEPT !.impl_blocks = Append(@, ParsedImplOf(Head(agenda).node))]
    /\ recorded' = [recorded EXCEPT !.impl_blocks = Append(@, Head(agenda).path)]
    /\ Descend(Head(agenda).node.items)
    /\ UNCHANGED <<source, parsed, pc>>

VisitItemUse ==
    /\ Visiting({"Use"})
    /\ result' = [result EXCEPT !.uses = Append(@, UseStatementOf(Head(agenda).node))]
    /\ recorded' = [recorded EXCEPT !.uses = Append(@, Head(agenda).path)]
    /\ Descend(<<>>)
    /\ UNCHANGED <<source, parsed, pc>>

BlockChildren(b) == b.stmts

VisitBlock ==
    /\ Visiting({"Block"})
    /\ Descend(BlockChildren(Head(agenda).node))
    /\ UNCHANGED <<source, parsed, pc, result, recorded>>

(* Every node kind RustVisitor does not override: syn's generated          *)
(* visit_* functions, which only descend.                                  *)
VisitDefault ==
    /\ pc = "visiting" /\ agenda # <<>> /\ Head(agenda).node.kind \notin HandledKinds
    /\ Descend(DefaultChildren(Head(agenda).node))
    /\ UNCHANGED <<source, parsed, pc, result, recorded>>

(* Line 310: Ok(visitor.result).                                           *)
ReturnOk ==
    /\ pc = "visiting"
    /\ agenda = <<>>
    /\ pc' = "done"
    /\ UNCHANGED <<source, parsed, result, agenda, recorded>>

(* Err(e) arm, lines 312-325.                                              *)
ReturnParseError ==
    /\ pc = "start"
    /\ ~parsed.ok
    /\ result' = ErrorReport(parsed.err)
    /\ pc' = "done"
    /\ UNCHANGED <<source, parsed, agenda, recorded>>

Next ==
    \/ NewVisitor
    \/ DetectContractType
    \/ VisitFile
    \/ VisitItemFn
    \/ VisitItemStruct
    \/ VisitItemTrait
    \/ VisitItemImpl
    \/ VisitItemUse
    \/ VisitBlock
    \/ VisitDefault
    \/ ReturnOk
    \/ ReturnParseError

Spec == Init /\ [][Next]_vars

---------------------------------------------------------------------------
(* Vocabulary of the properties: the declarations of the parsed file,      *)
(* enumerated from the tree itself and not from the walk.                  *)

SyntaxChildren(n) ==
    CASE n.kind \in {"Fn", "ImplFn", "ExprUnsafe", "ExprBlock"} -> <<n.block>>
      [] n.kind = "TraitFn" -> n.default
      [] n.kind = "Block" -> n.stmts
      [] n.kind \in {"Trait", "Impl", "Mod"} -> n.items
      [] n.kind = "Local" -> n.init
      [] OTHER -> <<>>

RECURSIVE NodesUnder(_, _)
NodesUnder(path, nodes) ==
    UNION { {[node |-> nodes[i], path |-> path \o <<i>>]}
            \cup NodesUnder(path \o <<i>>, SyntaxChildren(nodes[i])) : i \in 1..Len(nodes) }

AllNodes == NodesUnder(<<>>, parsed.ast)

NodeAt(p) == (CHOOSE e \in AllNodes : e.path = p).node

PathsOfKind(kinds) == { e.path : e \in { x \in AllNodes : x.node.kind \in kinds } }

IsPrefix(p, q) == Len(p) <= Len(q) /\ SubSeq(q, 1, Len(p)) = p

(* p starts before q in the source: p encloses q, or they part ways at a   *)
(* position where p takes the earlier sibling.                             *)
StartsBefore(p, q) ==
    \/ Len(p) < Len(q) /\ IsPrefix(p, q)
    \/ \E k \in 1..Len(p) :
          /\ k <= Len(q)
          /\ SubSeq(p, 1, k - 1) = SubSeq(q, 1, k - 1)
          /\ p[k] < q[k]

(* The declaration at p lies inside the body of a function or method.      *)
InBody(p) ==
    \E k \in 1..(Len(p) - 1) : NodeAt(SubSeq(p, 1, k)).kind = "Block"

Lists == {"functions", "structs", "traits", "impl_blocks", "uses"}

KindOf(list) ==
    CASE list = "functions" -> "Fn"
      [] list = "structs" -> "Struct"
      [] list = "traits" -> "Trait"
      [] list = "impl_blocks" -> "Impl"
      [] list = "uses" -> "Use"

Range(seq) == { seq[i] : i \in 1..Len(seq) }

Occurs(marker) ==
    \E i \in 1..Len(source) : \E j \in i..Len(source) : SubSeq(source, i, j) = marker

HasInk == Occurs(InkAttr) \/ Occurs(InkLang)

HasCosmwasm == Occurs(CosmwasmStd) \/ Occurs(InstantiateMsg)

HasAnchor == Occurs(AnchorLang) \/ Occurs(ProgramAttr)

HasNear == Occurs(NearSdk) \/ Occurs(NearBindgen)

Done == pc = "done"

AllListsEmpty == \A l \in Lists : result[l] = <<>>

---------------------------------------------------------------------------
(* C1: when the parser rejects the text, the returned report has all five  *)
(* record lists empty, contract_type "unknown", and exactly one error      *)
(* entry: the parser's diagnostic prefixed with "Parse error: ".           *)
C1_ParseFailureReport ==
    (Done /\ ~parsed.ok) =>
        /\ AllListsEmpty
        /\ result.contract_type = "unknown"
        /\ Len(result.errors) = 1
        /\ result.errors[1] = "Parse error: " \o parsed.err

C1_Witness ==
    /\ Done /\ ~parsed.ok
    /\ HasCosmwasm
    /\ result.errors = <<"Parse error: expected identifier">>

---------------------------------------------------------------------------
(* C2 as stated: a text containing an ink marker yields contract_type      *)
(* "ink" in the returned report whether or not the text parses.            *)
C2_InkLabelRegardlessOfParse ==
    (Done /\ HasInk) => result.contract_type = "ink"

(* C2 amended: a text containing an ink marker yields contract_type "ink"  *)
(* when the text parses, and "unknown" when it does not.                   *)
C2_InkLabelWhenParsed ==
    (Done /\ HasInk) =>
        /\ parsed.ok => result.contract_type = "ink"
        /\ ~parsed.ok => result.contract_type = "unknown"

C2_Witness ==
    /\ Done /\ parsed.ok
    /\ Occurs(InkLang) /\ ~Occurs(InkAttr) /\ HasNear
    /\ result.contract_type = "ink"

---------------------------------------------------------------------------
(* C3: a file that parses and holds N function declarations (free, in a    *)
(* module, in an impl block or in a trait body) yields exactly N entries   *)
(* in functions.                                                           *)
C3_EveryFunctionRecorded ==
    (Done /\ parsed.ok) =>
        Len(result.functions) = Cardinality(PathsOfKind({"Fn", "ImplFn", "TraitFn"}))

---------------------------------------------------------------------------
(* C4: after each call of detect_contract_type the label is one of the     *)
(* five framework labels, fixed by the first marker pair present in the    *)
(* order ink, cosmwasm, anchor, near, else generic; the second call on the *)
(* same text leaves the label as the first call set it.                    *)
C4_LabelRule ==
    (pc \in {"constructed", "detected"}) =>
        /\ result.contract_type \in {"ink", "cosmwasm", "anchor", "near", "generic"}
        /\ HasInk => result.contract_type = "ink"
        /\ (~HasInk /\ HasCosmwasm) => result.contract_type = "cosmwasm"
        /\ (~HasInk /\ ~HasCosmwasm /\ HasAnchor) => result.contract_type = "anchor"
        /\ (~HasInk /\ ~HasCosmwasm /\ ~HasAnchor /\ HasNear) => result.contract_type = "near"
        /\ (~HasInk /\ ~HasCosmwasm /\ ~HasAnchor /\ ~HasNear) => result.contract_type = "generic"

C4_ClassifierTotalOrdered ==
    /\ []C4_LabelRule
    /\ [][(pc = "constructed" /\ pc' = "detected") =>
              result'.contract_type = result.contract_type]_vars

C4_Witness ==
    /\ pc = "detected"
    /\ HasNear /\ HasAnchor /\ ~HasInk /\ ~HasCosmwasm
    /\ result.contract_type = "anchor"

---------------------------------------------------------------------------
(* C5: a returned report is never a hybrid.  When the parser returned a    *)
(* tree, errors is empty, contract_type is the classifier's label (never   *)
(* "unknown") and every list holds one record per item declaration of its  *)
(* kind; a report with a non-empty errors list has all five lists empty.   *)
C5_NeverHybrid ==
    Done =>
        /\ parsed.ok =>
              /\ result.errors = <<>>
              /\ result.contract_type = DetectLabel(source)
              /\ result.contract_type # "unknown"
              /\ \A l \in Lists : Len(result[l]) = Cardinality(PathsOfKind({KindOf(l)}))
        /\ result.errors # <<>> => AllListsEmpty

C5_Witness ==
    /\ Done /\ parsed.ok
    /\ result.errors = <<>>
    /\ result.functions # <<>> /\ result.structs # <<>>
    /\ result.contract_type = "generic"

---------------------------------------------------------------------------
(* C6: every type text is the rendered type alone: target_type is the      *)
(* text of the impl block's self type, each param_type the text of the     *)
(* parameter's type, each field_type the text of the field's type.         *)
IsSimpleTyped(arg) == arg.kind = "Typed" /\ arg.pat.kind = "Ident"

TypeText(ty) == Join(ty)

C6_TypeTextAlone ==
    /\ \A i \in 1..Len(result.impl_blocks) :
          result.impl_blocks[i].target_type = TypeText(NodeAt(recorded.impl_blocks[i]).self_ty)
    /\ \A i \in 1..Len(result.functions) :
          LET typed == SelectSeq(NodeAt(recorded.functions[i]).sig.inputs, IsSimpleTyped)
          IN  \A j \in 1..Len(result.functions[i].parameters) :
                 j <= Len(typed) =>
                    result.functions[i].parameters[j].param_type = TypeText(typed[j].ty)
    /\ \A i \in 1..Len(result.structs) :
          LET declared == NodeAt(recorded.structs[i]).fields.list
          IN  \A j \in 1..Len(result.structs[i].fields) :
                 j <= Len(declared) =>
                    result.structs[i].fields[j].field_type = TypeText(declared[j].ty)

---------------------------------------------------------------------------
(* C7: a struct record has one field per declared field, in order: a tuple *)
(* struct with k fields gets the names field_0 .. field_(k-1), a           *)
(* named-field struct the declared names, a unit struct no field.          *)
TupleFieldNames == <<"field_0", "field_1", "field_2", "field_3", "field_4", "field_5">>

C7_StructFields ==
    \A i \in 1..Len(result.structs) :
        LET decl == NodeAt(recorded.structs[i]).fields
            got == result.structs[i].fields
        IN  /\ decl.style = "Unit" => got = <<>>
            /\ decl.style # "Unit" => Len(got) = Len(decl.list)
            /\ decl.style = "Unnamed" =>
                  \A j \in 1..Len(got) :
                      j <= Len(TupleFieldNames) => got[j].name = TupleFieldNames[j]
            /\ decl.style = "Named" =>
                  \A j \in 1..Len(got) : got[j].name = decl.list[j].ident[1]

C7_Witness ==
    /\ Done
    /\ \E i \in 1..Len(result.structs) :
          /\ NodeAt(recorded.structs[i]).fields.style = "Unnamed"
          /\ [j \in 1..Len(result.structs[i].fields) |-> result.structs[i].fields[j].name]
                = <<"field_0", "field_1", "field_2">>

---------------------------------------------------------------------------
(* C8: a function record's parameters are exactly the declaration's        *)
(* identifier-bound typed parameters in declaration order (the receiver    *)
(* and destructured parameters are left out), and return_type is None      *)
(* exactly when the declaration has no explicit return type.               *)
C8_FunctionParameters ==
    \A i \in 1..Len(result.functions) :
        LET sig == NodeAt(recorded.functions[i]).sig
            typed == SelectSeq(sig.inputs, IsSimpleTyped)
            got == result.functions[i].parameters
        IN  /\ Len(got) = Len(typed)
            /\ \A j \in 1..Len(got) :
                  /\ got[j].name = typed[j].pat.ident
                  /\ got[j].is_mutable = typed[j].pat.mutability
            /\ (result.functions[i].return_type = None) <=> (sig.output = None)

C8_Witness ==
    /\ Done
    /\ \E i \in 1..Len(result.functions) :
          LET sig == NodeAt(recorded.functions[i]).sig
          IN  /\ Len(sig.inputs) = 2
              /\ sig.inputs[1].kind = "Typed" /\ sig.inputs[1].pat.kind = "Other"
              /\ sig.inputs[2].kind = "Typed" /\ sig.inputs[2].pat.kind = "Ident"
              /\ Len(result.functions[i].parameters) = 1
              /\ result.functions[i].parameters[1].name = "amount"
              /\ result.functions[i].return_type = <<"Balance">>

---------------------------------------------------------------------------
(* C9 as stated: no declaration written inside a function or method body   *)
(* produces a record in any list.                                          *)
C9_NothingRecordedFromBodies ==
    \A l \in Lists : \A i \in 1..Len(recorded[l]) : ~InBody(recorded[l][i])

(* C9 amended: blocks are traversed; when the walk has returned, every     *)
(* function, struct, trait, impl block and use declared as an item         *)
(* statement inside a function or method body has its record, like those   *)
(* declared outside bodies, and nothing else inside a body has one.        *)
C9_BodyItemsRecorded ==
    (Done /\ parsed.ok) =>
        \A l \in Lists :
            { p \in Range(recorded[l]) : InBody(p) }
               = { p \in PathsOfKind({KindOf(l)}) : InBody(p) }

C9_Witness ==
    /\ Done
    /\ \E p \in Range(recorded.uses) :
          InBody(p) /\ \E k \in 1..Len(p) : NodeAt(SubSeq(p, 1, k)).kind = "ExprUnsafe"
    /\ \E p \in Range(recorded.functions) :
          InBody(p) /\ \E k \in 1..Len(p) : NodeAt(SubSeq(p, 1, k)).kind = "ImplFn"

---------------------------------------------------------------------------
(* C10: the walk records in preorder, left to right.  In every list the    *)
(* records stand in the order in which their declarations start in the     *)
(* source, each record is that of its declaration, and once the walk has   *)
(* returned every item declaration of the list's kind has exactly one.     *)
NameOfDecl(l, n) ==
    CASE l = "functions" -> n.sig.ident
      [] l \in {"structs", "traits"} -> n.ident
      [] OTHER -> ""

C10_PreorderOnce ==
    \A l \in Lists :
        /\ Len(result[l]) = Len(recorded[l])
        /\ \A i \in 1..Len(recorded[l]) :
              /\ NodeAt(recorded[l][i]).kind = KindOf(l)
              /\ l \in {"functions", "structs", "traits"} =>
                    result[l][i].name = NameOfDecl(l, NodeAt(recorded[l][i]))
        /\ \A i \in 1..Len(recorded[l]) : \A j \in 1..Len(recorded[l]) :
              i < j => StartsBefore(recorded[l][i], recorded[l][j])
        /\ (Done /\ parsed.ok) => Range(recorded[l]) = PathsOfKind({KindOf(l)})

C10_Witness ==
    /\ Done
    /\ Len(recorded.functions) = 2
    /\ Len(recorded.functions[1]) = 3
    /\ NodeAt(SubSeq(recorded.functions[1], 1, 1)).kind = "Mod"
    /\ Len(recorded.functions[2]) = 1
    /\ Len(recorded.uses) = 1

====
